---- MODULE Spec2Model ----
(***************************************************************************)
(* Model of mpv_websocket: the Wake Channel (src/mio_channel.rs), the      *)
(* Broadcast Server loop (src/websocket.rs) and the IPC Session loop       *)
(* (src/mpv.rs).                                                           *)
(*                                                                         *)
(* Each event-loop thread is modelled by its poll step and one action per  *)
(* dispatched event.  The websocket codec (tungstenite), the OS poller     *)
(* (mio / epoll, edge triggered) and the peers are the environment: their  *)
(* results are nondeterministic choices among the results the handlers     *)
(* match on.                                                               *)
(***************************************************************************)
EXTENDS Integers, Sequences, FiniteSets, TLC

\* ------------------------------------------------------------------------
\* Bounds of the model
\* ------------------------------------------------------------------------
MaxConns == 2        \* client connections ever made to the listener
MaxItems == 3        \* items sent by the producer of the server's channel
MaxInbound == 2       \* frames a peer has sent that were not read yet
MaxEnv == 6          \* inputs the environment makes in one run
MaxIpcEnv == 3       \* inputs mpv and the IPC socket make in one run
MaxBurst == 11       \* lines mpv writes in one burst
MaxSubs == 2         \* subtitle lines mpv writes in the end-to-end runs
MaxPipeEnv == 2      \* inputs of the clients in the end-to-end runs

\* ------------------------------------------------------------------------
\* Program constants
\* ------------------------------------------------------------------------
SERVER == 0
BROADCAST == SERVER + 1
ServerChanBound == 10
CLIENT == 0
IpcBROADCAST == CLIENT + 1
IpcChanBound == 10
NL == "\n"
OBSERVE_PROPERTY_SUB_TEXT ==
    <<"{\"command\":[", "\"observe_property\",1,", "\"sub-text\"]}", NL>>

ClientTokens == (BROADCAST + 1)..(BROADCAST + MaxConns)

VARIABLES
    chan,                 \* Server::start: queue of the mpsc sync_channel
    waker,                \* Server::start: the waker slot of the channel
    srvReady,             \* poller: sources with a readiness edge not yet returned by poll
    srvBatch,             \* events of the current poll batch still to dispatch
    registered,           \* sources registered with the server's poller
    pendingConn,          \* connections waiting in the listener's accept queue
    unique_token,
    token_to_tcpstreams,  \* accepted streams, not upgraded yet
    token_to_websockets,  \* registry: token -> WebSocketState
    inbound,              \* per client: what the peer sent and was not read yet
    sockFull,             \* per client: the socket's send buffer is full
    codec,                \* per client: frames held in the codec's out buffer
    wire,                 \* per client: frames the transport has taken
    handed,               \* history: messages passed to websocket.send
    fanout,               \* history: <<item, tokens Open at its dequeue>>
    prodPc, prodNext,     \* the thread calling ServerStarted::send_message
    envSteps,             \* inputs made by the environment so far
    last,                 \* history: the handler that ran last
    closedBy,             \* history: per client, what ended the connection
    ipcPc,                \* position of the IPC loop thread
    ipcState,             \* SocketState: Connected or Closed
    ipcMessages,          \* ConnectedState.messages of the IPC session
    ipcWrite,             \* ConnectedState.write of the IPC session
    ipcWire,              \* bytes the IPC transport has taken
    ipcSockFull,          \* the IPC socket's send buffer is full
    ipcIn,                \* bytes mpv sent that were not read yet
    ipcEof,               \* mpv closed its end
    mpvCur,               \* rest of the line mpv is in the middle of sending
    ipcReady,             \* IPC poller: sources with a readiness edge pending
    ipcBatch,             \* events of the IPC loop's batch still to dispatch
    ipcRegistered,        \* sources registered with the IPC poller
    ipcLines,             \* readable handler: lines still to process
    ipcCurW,              \* the CLIENT event being handled is writable too
    ipcChan,              \* queue of the IPC loop's own channel
    ipcWaker,             \* the waker slot of the IPC loop's channel
    ipcRelay,             \* BROADCAST handler: item taken by try_recv
    forwarded,            \* history: items sent on the IPC channel
    ipcDone,              \* history: lines processed by the running handler
    mpvSent,              \* history: all the bytes mpv has sent
    ipcClosedBy           \* history: what closed the IPC session

srvLoopVars == <<waker, srvBatch, registered, pendingConn, unique_token,
                 token_to_tcpstreams, token_to_websockets, inbound, sockFull,
                 codec, wire, handed, fanout, prodPc, prodNext, last,
                 closedBy>>

srvVars == <<chan, srvReady, srvLoopVars>>

ipcVars == <<ipcPc, ipcState, ipcMessages, ipcWrite, ipcWire, ipcSockFull,
             ipcIn, ipcEof, mpvCur, ipcReady, ipcBatch, ipcRegistered,
             ipcLines, ipcCurW, ipcChan, ipcWaker, ipcRelay, forwarded,
             ipcDone, mpvSent, ipcClosedBy>>

vars == <<srvVars, ipcVars, envSteps>>

\* ------------------------------------------------------------------------
\* Helpers
\* ------------------------------------------------------------------------
NoOuts == [t \in {} |-> "None"]

Op(op, token, outs) == [op |-> op, token |-> token, outs |-> outs]

IsPrefix(s, t) == Len(s) <= Len(t) /\ SubSeq(t, 1, Len(s)) = s

Count(s, x) == Cardinality({i \in 1..Len(s) : s[i] = x})

\* ------------------------------------------------------------------------
\* src/mio_channel.rs
\* ------------------------------------------------------------------------
\* mpsc::SyncSender::send blocks the caller while the buffer holds `bound` items
SendBlocked(q, bound) == Len(q) >= bound

\* The shared waker slot w is <<>> (None) or <<token>> (Some(Waker), created
\* for that token).
\* SyncSender::send, after tx.send returned: fire the waker when one is attached
wake(ready, w) ==
    IF w = <<>> THEN ready ELSE ready \cup {w[1]}

\* Source::register: `if waker.is_none() { *waker = Some(Waker::new(..)) }`
register_never(w, token) == w

register_overwrite(w, token) == <<token>>

register(w, token) ==
    IF w = <<>> THEN <<token>> ELSE w

\* Source::deregister: `*waker = None`
deregister(w) == <<>>

\* Source::reregister: deregister, then register
reregister(w, token) == register(deregister(w), token)

\* Receiver::try_recv: the oldest item, or empty
try_recv_newest(q) == IF q = <<>> THEN <<>> ELSE <<q[Len(q)]>>
try_recv_item(q) == IF q = <<>> THEN <<>> ELSE <<Head(q)>>
try_recv_rest(q) == IF q = <<>> THEN <<>> ELSE Tail(q)

\* ------------------------------------------------------------------------
\* src/websocket.rs : the per-connection state machine
\* A connection k is [state, messages, write, codec, wire, handed, full].
\* ------------------------------------------------------------------------
ClosingOutcomes == {"ConnectionClosed", "ConnectionReset", "IoOther", "Other"}
WriteOutcomes(k) ==
    IF k.full THEN {"WouldBlock"} \cup ClosingOutcomes
    ELSE {"Ok", "WouldBlock", "Interrupted"} \cup ClosingOutcomes

\* the results to consider for a handler on k: those of websocket.send when
\* the handler attempts a write, one placeholder when it makes none
WriteResults(k, attempts) ==
    IF attempts THEN WriteOutcomes(k) ELSE {"Ok"}

\* websocket.send(Text(msg)): the codec buffers the frame, then flushes its
\* out buffer to the transport
websocket_send(k, msg, out) ==
    IF out = "Ok"
    THEN [k EXCEPT !.handed = Append(@, msg),
                   !.wire = @ \o k.codec \o <<msg>>,
                   !.codec = <<>>]
    ELSE [k EXCEPT !.handed = Append(@, msg),
                   !.codec = Append(@, msg),
                   !.full = @ \/ (out = "WouldBlock")]

transition_to_closed(k) ==
    [k EXCEPT !.state = "Closed", !.messages = <<>>, !.write = "Unwritable"]

send_message_requeue(k, out) ==
    IF k.messages = <<>> THEN k
    ELSE LET msg == Head(k.messages)
             k2 == websocket_send(k, msg, out)
         IN CASE out = "Ok" -> [k2 EXCEPT !.messages = Tail(@)]
              [] out = "WouldBlock" -> [k2 EXCEPT !.write = "Unwritable"]
              [] out = "Interrupted" -> k2
              [] OTHER -> transition_to_closed(k2)

send_message(k, out) ==
    IF k.messages = <<>> THEN k
    ELSE LET msg == Head(k.messages)
             k1 == [k EXCEPT !.messages = Tail(@)]
             k2 == websocket_send(k1, msg, out)
         IN CASE out = "Ok" -> k2
              [] out = "WouldBlock" -> [k2 EXCEPT !.write = "Unwritable"]
              [] out = "Interrupted" -> k2
              [] OTHER -> transition_to_closed(k2)

\* ConnectedState::next_state(CanWrite)
CanWrite(k, out) ==
    send_message([k EXCEPT !.write = "Writable"], out)

\* ConnectedState::next_state(SendText(message))
push_front(q, m) == <<m>> \o q
push_back(q, m) == Append(q, m)

SendTextBlind(k, message, out) ==
    send_message([k EXCEPT !.messages = push_back(@, message)], out)

SendText(k, message, out) ==
    LET k1 == [k EXCEPT !.messages = push_back(@, message)]
    IN IF k1.write = "Unwritable" THEN k1 ELSE send_message(k1, out)

\* ConnectedState::next_state(MessagesAvailable): decode frames until the
\* read would block (inbound exhausted) or a closing error
MessagesAvailableNone(k, inb) == k

RECURSIVE MessagesAvailable(_, _)
MessagesAvailable(k, inb) ==
    IF inb = <<>> THEN k
    ELSE IF Head(inb) = "msg" THEN MessagesAvailable(k, Tail(inb))
    ELSE transition_to_closed(k)

\* what a handler's write attempt came to: None when send_message found the
\* queue empty, Closed for every result that closes the connection
OutClass(out) == IF out \in ClosingOutcomes THEN "Closed" ELSE out
Attempt(k, out) == IF k.messages = <<>> THEN "None" ELSE OutClass(out)

\* the connection of the registry under token c, as a record
ConnOf(c) ==
    [state |-> token_to_websockets[c].state,
     messages |-> token_to_websockets[c].messages,
     write |-> token_to_websockets[c].write,
     codec |-> codec[c], wire |-> wire[c], handed |-> handed[c],
     full |-> sockFull[c]]

\* UnconnectedState::next_state(UpgradeWebSocket(stream)) on success
NewConn(c) ==
    [state |-> "Connected", messages |-> <<>>, write |-> "Unwritable",
     codec |-> codec[c], wire |-> wire[c], handed |-> handed[c],
     full |-> sockFull[c]]

Entry(k) == [state |-> k.state, messages |-> k.messages, write |-> k.write]

\* the fan-out pass of the BROADCAST branch: SendText on every connection of
\* the registry, each with the result outs[c] of its write
FanOutAbort(msg, outs) ==
    [c \in DOMAIN token_to_websockets |->
        IF \E d \in DOMAIN token_to_websockets :
              /\ d < c
              /\ SendText(ConnOf(d), msg, outs[d]).state = "Closed"
        THEN ConnOf(c)
        ELSE SendText(ConnOf(c), msg, outs[c])]

FanOut(msg, outs) ==
    [c \in DOMAIN token_to_websockets |-> SendText(ConnOf(c), msg, outs[c])]

\* token_to_websockets.remove(&token) for the Closed connections only
RemainingAll(dom, closed) ==
    DOMAIN token_to_websockets \cup dom

RemainingNone(dom, closed) ==
    IF closed = {} THEN DOMAIN token_to_websockets \cup dom ELSE {}

Remaining(dom, closed) ==
    (DOMAIN token_to_websockets \cup dom) \ closed

\* poll.registry().deregister(stream) of each removed connection; a stream
\* that is dropped leaves the poller with its descriptor
DeregisteredNever(closed, dropped) ==
    registered \ dropped

DeregisteredLoopEnds(closed, dropped) ==
    IF closed \cup dropped = {} THEN registered ELSE {}

Deregistered(closed, dropped) ==
    registered \ (closed \cup dropped)

\* store the updated connections ks (token -> connection record): the ones
\* that are Closed are removed from the registry and deregistered; the
\* streams in `dropped` were dropped without reaching the registry
Store(ks, dropped) ==
    LET dom == DOMAIN ks
        closed == {c \in dom : ks[c].state = "Closed"}
        keep == Remaining(dom, closed)
    IN /\ token_to_websockets' =
            [c \in keep |-> IF c \in dom THEN Entry(ks[c])
                                         ELSE token_to_websockets[c]]
       /\ codec' = [c \in ClientTokens |->
                       IF c \in dom THEN ks[c].codec ELSE codec[c]]
       /\ wire' = [c \in ClientTokens |->
                       IF c \in dom THEN ks[c].wire ELSE wire[c]]
       /\ handed' = [c \in ClientTokens |->
                       IF c \in dom THEN ks[c].handed ELSE handed[c]]
       /\ sockFull' = [c \in ClientTokens |->
                       IF c \in dom THEN ks[c].full ELSE sockFull[c]]
       /\ registered' = Deregistered(closed, dropped)

\* ------------------------------------------------------------------------
\* src/websocket.rs : Server::start and the loop of the server thread
\* ------------------------------------------------------------------------
SrvInit ==
    /\ chan = <<>>
    /\ waker = register(<<>>, BROADCAST)
    /\ srvReady = {}
    /\ srvBatch = {}
    /\ registered = {SERVER, BROADCAST}
    /\ pendingConn = 0
    /\ unique_token = BROADCAST
    /\ token_to_tcpstreams = {}
    /\ token_to_websockets = NoOuts
    /\ inbound = [c \in ClientTokens |-> <<>>]
    /\ sockFull = [c \in ClientTokens |-> FALSE]
    /\ codec = [c \in ClientTokens |-> <<>>]
    /\ wire = [c \in ClientTokens |-> <<>>]
    /\ handed = [c \in ClientTokens |-> <<>>]
    /\ fanout = <<>>
    /\ prodPc = "idle"
    /\ prodNext = 1
    /\ last = Op("Start", SERVER, NoOuts)
    /\ closedBy = [c \in ClientTokens |-> "none"]

\* the readiness the poller reports for a source with a pending edge
EventFlags(t) ==
    IF t = SERVER THEN (IF pendingConn > 0 THEN {"r"} ELSE {})
    ELSE IF t = BROADCAST THEN {"r"}
    ELSE (IF inbound[t] # <<>> THEN {"r"} ELSE {})
         \cup (IF ~sockFull[t] THEN {"w"} ELSE {})

\* poll.poll(&mut events, None): blocks until a registered source is ready
SrvPoll ==
    /\ UNCHANGED <<envSteps, ipcVars>>
    /\ UNCHANGED closedBy
    /\ srvBatch = {}
    /\ \E t \in srvReady \cap registered : EventFlags(t) # {}
    /\ srvBatch' = {[token |-> t, flags |-> EventFlags(t)] :
                      t \in {u \in srvReady \cap registered : EventFlags(u) # {}}}
    /\ srvReady' = {}
    /\ UNCHANGED <<chan, waker, registered, pendingConn, unique_token,
                   token_to_tcpstreams, token_to_websockets, inbound, sockFull,
                   codec, wire, handed, fanout, prodPc, prodNext, last>>

\* TokenExt::next
next_lowest_free(token) ==
    CHOOSE t \in (BROADCAST + 1)..(token + 1) :
        /\ t \notin token_to_tcpstreams \cup DOMAIN token_to_websockets
        /\ \A u \in (BROADCAST + 1)..(t - 1) :
              u \in token_to_tcpstreams \cup DOMAIN token_to_websockets

next(token) ==
    token + 1

\* unique_token after n passes of the accept loop
RECURSIVE NthNext(_, _)
NthNext(token, n) ==
    IF n = 0 THEN token ELSE next(NthNext(token, n - 1))

\* the passes of `loop { server.accept() ... }` that accept a connection
\* before accept returns WouldBlock, `pending` connections waiting
AcceptOnce(pending) == IF pending > 0 THEN 1 ELSE 0

AcceptLoop(pending) == pending

\* SERVER => accept until would-block, register each stream under a fresh token
SrvAccept ==
    \E e \in srvBatch :
      /\ UNCHANGED <<envSteps, ipcVars>>
      /\ e.token = SERVER
      /\ srvBatch' = srvBatch \ {e}
      /\ LET n == AcceptLoop(pendingConn)
             fresh == {NthNext(unique_token, i) : i \in 1..n}
         IN \E failed \in SUBSET fresh :
              /\ unique_token' = NthNext(unique_token, n)
              /\ pendingConn' = pendingConn - n
              /\ token_to_tcpstreams' = token_to_tcpstreams \cup (fresh \ failed)
              /\ registered' = registered \cup (fresh \ failed)
              /\ srvReady' = srvReady \cup (fresh \ failed)
              /\ last' = Op("Accept", SERVER, [c \in fresh |->
                              IF c \in failed THEN "RegisterFailed" ELSE "Ok"])
              /\ closedBy' = [c \in ClientTokens |->
                                IF c \in failed THEN "register" ELSE closedBy[c]]
      /\ UNCHANGED <<chan, waker, token_to_websockets, inbound, sockFull,
                     codec, wire, handed, fanout, prodPc, prodNext>>

\* BROADCAST => one try_recv, fan the item out, remove the closed connections
SrvBroadcast ==
    \E e \in srvBatch :
      /\ UNCHANGED <<envSteps, ipcVars>>
      /\ e.token = BROADCAST
      /\ srvBatch' = srvBatch \ {e}
      /\ chan' = try_recv_rest(chan)
      /\ IF try_recv_item(chan) = <<>>
         THEN /\ last' = Op("BroadcastEmpty", BROADCAST, NoOuts)
              /\ UNCHANGED <<token_to_websockets, codec, wire, handed,
                             sockFull, registered, fanout, closedBy>>
         ELSE LET msg == try_recv_item(chan)[1]
                  open == DOMAIN token_to_websockets
              IN \E outs \in [open -> {"Ok", "WouldBlock", "Interrupted"}
                                        \cup ClosingOutcomes] :
                   /\ \A c \in open : outs[c] \in
                          WriteResults(ConnOf(c), ConnOf(c).write = "Writable")
                   /\ Store(FanOut(msg, outs), {})
                   /\ fanout' = Append(fanout, [item |-> msg, open |-> open])
                   /\ last' = Op("Broadcast", BROADCAST,
                                 [c \in open |->
                                    IF ConnOf(c).write = "Writable"
                                    THEN OutClass(outs[c]) ELSE "None"])
                   /\ closedBy' = [c \in ClientTokens |->
                        IF c \in open /\ FanOut(msg, outs)[c].state = "Closed"
                        THEN "fanout" ELSE closedBy[c]]
      /\ UNCHANGED <<waker, srvReady, pendingConn, unique_token,
                     token_to_tcpstreams, inbound, prodPc, prodNext>>

\* the handshake failed: `state` is dropped with the stream, `continue`
UpgradeFailedKeep(c) ==
    [has |-> FALSE, k |-> NewConn(c),
     dropped |-> FALSE, cont |-> TRUE, op |-> "UpgradeFailed"]

UpgradeFailed(c) ==
    [has |-> FALSE, k |-> NewConn(c),
     dropped |-> TRUE, cont |-> TRUE, op |-> "UpgradeFailed"]

\* token => the readable part of a client event.  The result tells whether a
\* connection object exists afterwards (has, k), whether the stream was
\* dropped and whether `continue` skipped the rest of the event
ReadPart(c, flags) ==
    IF "r" \notin flags
    THEN [has |-> c \in DOMAIN token_to_websockets,
          k |-> IF c \in DOMAIN token_to_websockets THEN ConnOf(c) ELSE NewConn(c),
          dropped |-> FALSE, cont |-> FALSE, op |-> "None"]
    ELSE IF c \in token_to_tcpstreams
    THEN IF inbound[c] # <<>> /\ Head(inbound[c]) = "hs"
         THEN [has |-> TRUE,
               k |-> MessagesAvailable(NewConn(c), Tail(inbound[c])),
               dropped |-> FALSE, cont |-> FALSE, op |-> "Upgrade"]
         ELSE UpgradeFailed(c)
    ELSE IF c \in DOMAIN token_to_websockets
    THEN [has |-> TRUE, k |-> MessagesAvailable(ConnOf(c), inbound[c]),
          dropped |-> FALSE, cont |-> FALSE, op |-> "Read"]
    ELSE [has |-> FALSE, k |-> NewConn(c),
          dropped |-> FALSE, cont |-> FALSE, op |-> "None"]

\* `if event.is_readable() { if let Some(stream) =
\* token_to_tcpstreams.remove(&token)`: the Upgrading set after the event
tcpstreams_retain(c, flags) == token_to_tcpstreams

tcpstreams_remove(c, flags) ==
    IF "r" \in flags THEN token_to_tcpstreams \ {c}
    ELSE token_to_tcpstreams

\* token => readable part, then writable part, of one client event
SrvClient(c) ==
    \E e \in srvBatch :
      /\ UNCHANGED <<envSteps, ipcVars>>
      /\ e.token = c
      /\ srvBatch' = srvBatch \ {e}
      /\ LET rp == ReadPart(c, e.flags)
             writes == /\ rp.has /\ rp.k.state = "Connected"
                       /\ ~rp.cont /\ "w" \in e.flags
         IN \E out \in WriteResults(rp.k, writes /\ rp.k.messages # <<>>) :
              /\ Store(IF rp.has
                       THEN (c :> (IF writes THEN CanWrite(rp.k, out) ELSE rp.k))
                       ELSE NoOuts,
                       IF rp.dropped THEN {c} ELSE {})
              /\ last' = Op(IF writes THEN "CanWrite" ELSE rp.op, c,
                            (c :> (IF writes THEN Attempt(rp.k, out) ELSE "None")))
              /\ closedBy' = [closedBy EXCEPT ![c] =
                    IF rp.op = "UpgradeFailed" THEN "handshake"
                    ELSE IF rp.has /\ rp.k.state = "Closed"
                         THEN (IF rp.op = "Upgrade" THEN "firstread" ELSE "read")
                    ELSE IF writes /\ CanWrite(rp.k, out).state = "Closed"
                         THEN "write"
                    ELSE @]
              /\ inbound' = [inbound EXCEPT ![c] =
                    IF rp.op \in {"Upgrade", "UpgradeFailed", "Read"}
                    THEN <<>> ELSE @]
      /\ token_to_tcpstreams' = tcpstreams_remove(c, e.flags)
      /\ UNCHANGED <<chan, waker, srvReady, pendingConn, unique_token,
                     fanout, prodPc, prodNext>>

\* ------------------------------------------------------------------------
\* Environment of the server: browser clients, their sockets, the producer
\* ------------------------------------------------------------------------
HandshakeKinds == {"hs", "hsbad", "hspart"}
FrameKinds == {"msg", "close", "bad"}

ClientConnect ==
    /\ envSteps < MaxEnv /\ envSteps' = envSteps + 1
    /\ UNCHANGED closedBy
    /\ UNCHANGED ipcVars
    /\ (unique_token - BROADCAST) + pendingConn < MaxConns
    /\ pendingConn' = pendingConn + 1
    /\ srvReady' = srvReady \cup {SERVER}
    /\ UNCHANGED <<chan, waker, srvBatch, registered, unique_token,
                   token_to_tcpstreams, token_to_websockets, inbound, sockFull,
                   codec, wire, handed, fanout, prodPc, prodNext, last>>

ClientSend(c) ==
    /\ envSteps < MaxEnv /\ envSteps' = envSteps + 1
    /\ UNCHANGED closedBy
    /\ UNCHANGED ipcVars
    /\ c \in registered
    /\ Len(inbound[c]) < MaxInbound
    /\ \E x \in HandshakeKinds \cup FrameKinds :
         /\ x \in (IF c \in token_to_tcpstreams /\ inbound[c] = <<>>
                   THEN HandshakeKinds ELSE FrameKinds)
         /\ inbound' = [inbound EXCEPT ![c] = Append(@, x)]
    /\ srvReady' = srvReady \cup {c}
    /\ UNCHANGED <<chan, waker, srvBatch, registered, pendingConn, unique_token,
                   token_to_tcpstreams, token_to_websockets, sockFull,
                   codec, wire, handed, fanout, prodPc, prodNext, last>>

\* the peer drained the socket: it is writable again, a new edge is raised
SockDrained(c) ==
    /\ envSteps < MaxEnv /\ envSteps' = envSteps + 1
    /\ UNCHANGED closedBy
    /\ UNCHANGED ipcVars
    /\ c \in registered
    /\ sockFull[c]
    /\ sockFull' = [sockFull EXCEPT ![c] = FALSE]
    /\ srvReady' = srvReady \cup {c}
    /\ UNCHANGED <<chan, waker, srvBatch, registered, pendingConn, unique_token,
                   token_to_tcpstreams, token_to_websockets, inbound,
                   codec, wire, handed, fanout, prodPc, prodNext, last>>

\* ServerStarted::send_message -> SyncSender::send: tx.send(t)?
ProdSend ==
    /\ envSteps < MaxEnv /\ envSteps' = envSteps + 1
    /\ UNCHANGED closedBy
    /\ UNCHANGED ipcVars
    /\ prodPc = "idle"
    /\ prodNext <= MaxItems
    /\ ~SendBlocked(chan, ServerChanBound)
    /\ chan' = Append(chan, prodNext)
    /\ prodPc' = "wake"
    /\ UNCHANGED <<waker, srvReady, srvBatch, registered, pendingConn,
                   unique_token, token_to_tcpstreams, token_to_websockets,
                   inbound, sockFull, codec, wire, handed, fanout, prodNext, last>>

\* SyncSender::send: waker.wake()
ProdWake ==
    /\ UNCHANGED <<envSteps, ipcVars>>
    /\ UNCHANGED closedBy
    /\ prodPc = "wake"
    /\ srvReady' = wake(srvReady, waker)
    /\ prodPc' = "idle"
    /\ prodNext' = prodNext + 1
    /\ UNCHANGED <<chan, waker, srvBatch, registered, pendingConn,
                   unique_token, token_to_tcpstreams, token_to_websockets,
                   inbound, sockFull, codec, wire, handed, fanout, last>>

SrvNext ==
    \/ SrvPoll
    \/ SrvAccept
    \/ SrvBroadcast
    \/ \E c \in ClientTokens : SrvClient(c)
    \/ ClientConnect
    \/ \E c \in ClientTokens : ClientSend(c)
    \/ \E c \in ClientTokens : SockDrained(c)
    \/ ProdSend
    \/ ProdWake


\* ------------------------------------------------------------------------
\* src/mpv.rs : the IPC session and the loop of the IPC thread
\* Inbound bytes are modelled field by field: a line is a sequence of field
\* symbols (event, name, data) followed by NL.
\* ------------------------------------------------------------------------
ValidLine == <<"property-change", "sub-text", "hello">>
MpvLines ==
    { ValidLine,
      <<"pause">>,
      <<"property-change", "volume", "hello">>,
      <<"property-change", "sub-text", "">>,
      <<"property-change", "sub-text">> }

\* responses.lines(): split at NL; no empty last piece after a final NL
RECURSIVE SplitLines(_, _)
SplitLines(buf, cur) ==
    IF buf = <<>> THEN (IF cur = <<>> THEN <<>> ELSE <<cur>>)
    ELSE IF Head(buf) = NL THEN <<cur>> \o SplitLines(Tail(buf), <<>>)
    ELSE SplitLines(Tail(buf), Append(cur, Head(buf)))
lines(buf) == SplitLines(buf, <<>>)

\* serde_json::from_str::<PropertyChangeEvent>(line): <<data>> when the line
\* has event property-change, name sub-text and a data string, <<>> on Err
from_str_any_name(line) ==
    IF Len(line) = 3 /\ line[1] = "property-change"
    THEN <<line[3]>> ELSE <<>>

from_str(line) ==
    IF Len(line) = 3 /\ line[1] = "property-change" /\ line[2] = "sub-text"
    THEN <<line[3]>> ELSE <<>>

\* the item the line loop sends for a line: <<>> when it `continue`s
LineItem(line) ==
    IF from_str(line) = <<>> THEN <<>>
    ELSE IF from_str(line)[1] = "" THEN <<>>
    ELSE from_str(line)

\* std::mem::replace(self, ConnectedState { EmptyStream, empty queue,
\* Unwritable }), Ok(Some(SocketState::Closed(stream)))
ipc_transition_to_closed ==
    [state |-> "Closed", messages |-> <<>>, write |-> "Unwritable"]

\* `if let SocketState::Closed(stream) = state { deregister; return; }`
ClosedKeepsRunning ==
    [registered |-> ipcRegistered, pc |-> "lines"]

ClosedFallThrough ==
    [registered |-> ipcRegistered \ {CLIENT}, pc |-> "lines"]

ClosedReturn ==
    [registered |-> ipcRegistered \ {CLIENT}, pc |-> "done"]

\* the session built after the transport connected, then
\* next_state(SendText(OBSERVE_PROPERTY_SUB_TEXT)) on it: the flag being
\* Unwritable the message is queued and nothing is written
InitialSessionWritten ==
    [messages |-> <<>>, write |-> "Writable",
     wire |-> OBSERVE_PROPERTY_SUB_TEXT]

InitialSession ==
    [messages |-> push_back(<<>>, OBSERVE_PROPERTY_SUB_TEXT),
     write |-> "Unwritable", wire |-> <<>>]

IpcInit ==
    /\ ipcPc = "loop"
    /\ ipcState = "Connected"
    /\ ipcMessages = InitialSession.messages
    /\ ipcWrite = InitialSession.write
    /\ ipcWire = InitialSession.wire
    /\ ipcSockFull = FALSE
    /\ ipcIn = <<>>
    /\ ipcEof = FALSE
    /\ mpvCur = <<>>
    /\ ipcReady = {CLIENT}
    /\ ipcBatch = {}
    /\ ipcRegistered = {CLIENT, IpcBROADCAST}
    /\ ipcLines = <<>>
    /\ ipcCurW = FALSE
    /\ ipcChan = <<>>
    /\ ipcWaker = register(<<>>, IpcBROADCAST)
    /\ ipcRelay = <<>>
    /\ forwarded = <<>>
    /\ ipcDone = <<>>
    /\ mpvSent = <<>>
    /\ ipcClosedBy = "none"

IpcEventFlags(t) ==
    IF t = IpcBROADCAST THEN {"r"}
    ELSE (IF ipcIn # <<>> \/ ipcEof THEN {"r"} ELSE {})
         \cup (IF ~ipcSockFull THEN {"w"} ELSE {})

\* poll.poll(&mut events, None)
IpcPoll ==
    /\ UNCHANGED ipcClosedBy
    /\ ipcPc = "loop"
    /\ ipcBatch = {}
    /\ \E t \in ipcReady \cap ipcRegistered : IpcEventFlags(t) # {}
    /\ ipcBatch' = {[token |-> t, flags |-> IpcEventFlags(t)] :
                      t \in {u \in ipcReady \cap ipcRegistered :
                                IpcEventFlags(u) # {}}}
    /\ ipcReady' = {}
    /\ UNCHANGED <<ipcPc, ipcState, ipcMessages, ipcWrite, ipcWire,
                   ipcSockFull, ipcIn, ipcEof, mpvCur, ipcRegistered, ipcLines,
                   ipcCurW, ipcChan, ipcWaker, ipcRelay, forwarded, ipcDone>>
    /\ UNCHANGED <<srvVars, envSteps>>
    /\ UNCHANGED mpvSent

\* the read loop of MessagesAvailable.  A read returns some of the bytes that
\* are available; the loop ends with `break` after a read whose last byte is
\* NL (k bytes consumed), or with would-block / a 0-byte read once everything
\* was consumed (k = 0)
ReadChoices ==
    {k \in 1..Len(ipcIn) : ipcIn[k] = NL}
    \cup (IF ipcIn = <<>> \/ ipcIn[Len(ipcIn)] # NL THEN {0} ELSE {})

\* CLIENT, readable part: SocketState::next_state(MessagesAvailable) up to
\* the line loop
IpcClientReadable ==
    /\ ipcPc = "loop"
    /\ \E e \in ipcBatch :
        /\ e.token = CLIENT
        /\ ipcBatch' = ipcBatch \ {e}
        /\ ipcCurW' = ("w" \in e.flags)
        /\ ipcDone' = <<>>
        /\ IF "r" \notin e.flags
           THEN /\ ipcPc' = "lines"
                /\ ipcLines' = <<>>
                /\ UNCHANGED <<ipcState, ipcMessages, ipcWrite, ipcIn,
                               ipcRegistered, ipcClosedBy>>
           ELSE \E k \in ReadChoices :
                  IF k > 0
                  THEN /\ ipcLines' = lines(SubSeq(ipcIn, 1, k))
                       /\ ipcIn' = SubSeq(ipcIn, k + 1, Len(ipcIn))
                       /\ ipcPc' = "lines"
                       /\ UNCHANGED <<ipcState, ipcMessages, ipcWrite,
                                      ipcRegistered, ipcClosedBy>>
                  ELSE IF ipcEof
                  THEN /\ ipcState' = ipc_transition_to_closed.state
                       /\ ipcMessages' = ipc_transition_to_closed.messages
                       /\ ipcWrite' = ipc_transition_to_closed.write
                       /\ ipcRegistered' = ClosedReturn.registered
                       /\ ipcIn' = <<>>
                       /\ ipcLines' = <<>>
                       /\ ipcPc' = ClosedReturn.pc
                       /\ ipcClosedBy' = "eof"
                  ELSE /\ ipcIn' = <<>>
                       /\ ipcLines' = <<>>
                       /\ ipcPc' = "lines"
                       /\ UNCHANGED <<ipcState, ipcMessages, ipcWrite,
                                      ipcRegistered, ipcClosedBy>>
    /\ UNCHANGED <<ipcWire, ipcSockFull, ipcEof, mpvCur, ipcReady, ipcChan,
                   ipcWaker, ipcRelay, forwarded>>
    /\ UNCHANGED <<srvVars, envSteps>>
    /\ UNCHANGED mpvSent

\* one pass of `for line in responses.lines()`: parse, filter, sender.send
IpcLine ==
    /\ UNCHANGED ipcClosedBy
    /\ ipcPc = "lines"
    /\ ipcLines # <<>>
    /\ LET item == LineItem(Head(ipcLines))
       IN IF item = <<>>
          THEN UNCHANGED <<ipcChan, ipcReady, forwarded>>
          ELSE /\ ~SendBlocked(ipcChan, IpcChanBound)
               /\ ipcChan' = Append(ipcChan, item[1])
               /\ ipcReady' = wake(ipcReady, ipcWaker)
               /\ forwarded' = Append(forwarded, item[1])
    /\ ipcLines' = Tail(ipcLines)
    /\ ipcDone' = Append(ipcDone, Head(ipcLines))
    /\ UNCHANGED <<ipcPc, ipcState, ipcMessages, ipcWrite, ipcWire,
                   ipcSockFull, ipcIn, ipcEof, mpvCur, ipcBatch, ipcRegistered,
                   ipcCurW, ipcWaker, ipcRelay>>
    /\ UNCHANGED <<srvVars, envSteps>>
    /\ UNCHANGED mpvSent

\* stream.write_all(msg): n chunks are taken by the transport before the
\* result res, one of the results send_message matches on; an interrupted
\* write has transferred nothing
WriteAllResults(msg) ==
    {[res |-> "Interrupted", n |-> 0]} \cup
    IF ipcSockFull
    THEN {[res |-> r, n |-> 0] : r \in {"WouldBlock", "WriteZero", "Other"}}
    ELSE {[res |-> "Ok", n |-> Len(msg)]}
         \cup {[res |-> r, n |-> n] :
                 r \in {"WouldBlock", "WriteZero", "Other"},
                 n \in 0..(Len(msg) - 1)}

\* ConnectedState::send_message of the IPC session: the queue and the flag
\* after the write result w of the popped message
ipc_send_message(q, flag, w) ==
    CASE w.res = "WouldBlock" ->
           [messages |-> <<Head(q)>> \o Tail(q), write |-> "Unwritable"]
      [] w.res = "Interrupted" ->
           [messages |-> <<Head(q)>> \o Tail(q), write |-> flag]
      [] OTHER -> [messages |-> Tail(q), write |-> flag]

\* end of the readable part (no line left), then CLIENT, writable part:
\* SocketState::next_state(CanWrite)
IpcWritable ==
    /\ ipcPc = "lines"
    /\ ipcLines = <<>>
    /\ IF ~ipcCurW \/ ipcMessages = <<>>
       THEN /\ ipcWrite' = IF ipcCurW THEN "Writable" ELSE ipcWrite
            /\ ipcPc' = "loop"
            /\ UNCHANGED ipcClosedBy
            /\ UNCHANGED <<ipcState, ipcMessages, ipcWire, ipcSockFull,
                           ipcRegistered>>
       ELSE \E w \in WriteAllResults(Head(ipcMessages)) :
              LET after == ipc_send_message(ipcMessages, "Writable", w)
              IN /\ ipcWire' = ipcWire \o SubSeq(Head(ipcMessages), 1, w.n)
                 /\ ipcSockFull' = (ipcSockFull \/ w.res = "WouldBlock")
                 /\ ipcClosedBy' = IF w.res = "WriteZero" THEN "writezero"
                                   ELSE ipcClosedBy
                 /\ IF w.res = "WriteZero"
                    THEN /\ ipcState' = ipc_transition_to_closed.state
                         /\ ipcMessages' = ipc_transition_to_closed.messages
                         /\ ipcWrite' = ipc_transition_to_closed.write
                         /\ ipcRegistered' = ClosedReturn.registered
                         /\ ipcPc' = ClosedReturn.pc
                    ELSE /\ ipcMessages' = after.messages
                         /\ ipcWrite' = after.write
                         /\ ipcPc' = IF w.res = "Other" THEN "panic" ELSE "loop"
                         /\ UNCHANGED <<ipcState, ipcRegistered>>
    /\ UNCHANGED <<ipcIn, ipcEof, mpvCur, ipcReady, ipcBatch, ipcLines,
                   ipcCurW, ipcChan, ipcWaker, ipcRelay, forwarded, ipcDone>>
    /\ UNCHANGED <<srvVars, envSteps>>
    /\ UNCHANGED mpvSent

\* BROADCAST => one receiver.try_recv()
IpcBroadcast ==
    /\ UNCHANGED ipcClosedBy
    /\ ipcPc = "loop"
    /\ \E e \in ipcBatch :
        /\ e.token = IpcBROADCAST
        /\ ipcBatch' = ipcBatch \ {e}
    /\ ipcRelay' = try_recv_item(ipcChan)
    /\ ipcChan' = try_recv_rest(ipcChan)
    /\ ipcPc' = IF ipcChan = <<>> THEN "loop" ELSE "relay"
    /\ UNCHANGED <<ipcState, ipcMessages, ipcWrite, ipcWire, ipcSockFull,
                   ipcIn, ipcEof, mpvCur, ipcReady, ipcRegistered, ipcLines,
                   ipcCurW, ipcWaker, forwarded, ipcDone>>
    /\ UNCHANGED <<srvVars, envSteps>>
    /\ UNCHANGED mpvSent

\* server.send_message(msg) -> SyncSender::send: tx.send(t)?
IpcRelaySend ==
    /\ UNCHANGED ipcClosedBy
    /\ ipcPc = "relay"
    /\ ~SendBlocked(chan, ServerChanBound)
    /\ chan' = Append(chan, ipcRelay[1])
    /\ ipcPc' = "relaywake"
    /\ UNCHANGED <<ipcState, ipcMessages, ipcWrite, ipcWire, ipcSockFull,
                   ipcIn, ipcEof, mpvCur, ipcReady, ipcBatch, ipcRegistered,
                   ipcLines, ipcCurW, ipcChan, ipcWaker, ipcRelay, forwarded,
                   ipcDone>>
    /\ UNCHANGED <<srvReady, srvLoopVars, envSteps>>
    /\ UNCHANGED mpvSent

\* SyncSender::send: waker.wake()
IpcRelayWake ==
    /\ UNCHANGED ipcClosedBy
    /\ ipcPc = "relaywake"
    /\ srvReady' = wake(srvReady, waker)
    /\ ipcRelay' = <<>>
    /\ ipcPc' = "loop"
    /\ UNCHANGED <<ipcState, ipcMessages, ipcWrite, ipcWire, ipcSockFull,
                   ipcIn, ipcEof, mpvCur, ipcReady, ipcBatch, ipcRegistered,
                   ipcLines, ipcCurW, ipcChan, ipcWaker, forwarded, ipcDone>>
    /\ UNCHANGED <<chan, srvLoopVars, envSteps>>
    /\ UNCHANGED mpvSent

\* ------------------------------------------------------------------------
\* Environment of the IPC session: mpv and the IPC socket
\* ------------------------------------------------------------------------
\* mpv sends the next bytes: some of a line, a line being sent in one or more
\* pieces
MpvWrite ==
    /\ UNCHANGED ipcClosedBy
    /\ envSteps < MaxIpcEnv /\ envSteps' = envSteps + 1
    /\ ~ipcEof
    /\ ipcState = "Connected"
    /\ \E l \in (IF mpvCur = <<>> THEN {Append(x, NL) : x \in MpvLines}
                 ELSE {mpvCur}) :
         \E n \in 1..Len(l) :
           /\ ipcIn' = ipcIn \o SubSeq(l, 1, n)
           /\ mpvSent' = mpvSent \o SubSeq(l, 1, n)
           /\ mpvCur' = SubSeq(l, n + 1, Len(l))
    /\ ipcReady' = ipcReady \cup {CLIENT}
    /\ UNCHANGED <<ipcPc, ipcState, ipcMessages, ipcWrite, ipcWire,
                   ipcSockFull, ipcEof, ipcBatch, ipcRegistered, ipcLines,
                   ipcCurW, ipcChan, ipcWaker, ipcRelay, forwarded, ipcDone>>
    /\ UNCHANGED srvVars

\* mpv sends MaxBurst subtitle lines at once
MpvBurst ==
    /\ UNCHANGED ipcClosedBy
    /\ envSteps < MaxIpcEnv /\ envSteps' = envSteps + 1
    /\ ~ipcEof
    /\ ipcState = "Connected"
    /\ mpvCur = <<>> /\ ipcIn = <<>>
    /\ LET l == Append(ValidLine, NL)
           burst == [i \in 1..(Len(l) * MaxBurst) |-> l[((i - 1) % Len(l)) + 1]]
       IN ipcIn' = burst /\ mpvSent' = mpvSent \o burst
    /\ ipcReady' = ipcReady \cup {CLIENT}
    /\ UNCHANGED <<ipcPc, ipcState, ipcMessages, ipcWrite, ipcWire,
                   ipcSockFull, ipcEof, mpvCur, ipcBatch, ipcRegistered,
                   ipcLines, ipcCurW, ipcChan, ipcWaker, ipcRelay, forwarded,
                   ipcDone>>
    /\ UNCHANGED srvVars

\* the n-th subtitle mpv shows
SubText(n) == <<"s1", "s2", "s3", "s4">>[n]

\* mpv sends the property-change event of its next subtitle, a whole line
MpvSubtitle ==
    /\ UNCHANGED ipcClosedBy
    /\ ~ipcEof
    /\ ipcState = "Connected"
    /\ mpvCur = <<>>
    /\ LET n == Count(mpvSent, NL) + 1
           l == <<"property-change", "sub-text", SubText(n), NL>>
       IN /\ n <= MaxSubs
          /\ ipcIn' = ipcIn \o l
          /\ mpvSent' = mpvSent \o l
    /\ ipcReady' = ipcReady \cup {CLIENT}
    /\ UNCHANGED <<ipcPc, ipcState, ipcMessages, ipcWrite, ipcWire,
                   ipcSockFull, ipcEof, mpvCur, ipcBatch, ipcRegistered,
                   ipcLines, ipcCurW, ipcChan, ipcWaker, ipcRelay, forwarded,
                   ipcDone>>
    /\ UNCHANGED <<srvVars, envSteps>>

\* mpv exits: the transport reports EOF
MpvClose ==
    /\ UNCHANGED ipcClosedBy
    /\ envSteps < MaxIpcEnv /\ envSteps' = envSteps + 1
    /\ ~ipcEof
    /\ ipcState = "Connected"
    /\ ipcEof' = TRUE
    /\ ipcReady' = ipcReady \cup {CLIENT}
    /\ UNCHANGED <<ipcPc, ipcState, ipcMessages, ipcWrite, ipcWire,
                   ipcSockFull, ipcIn, mpvCur, ipcBatch, ipcRegistered,
                   ipcLines, ipcCurW, ipcChan, ipcWaker, ipcRelay, forwarded,
                   ipcDone>>
    /\ UNCHANGED srvVars
    /\ UNCHANGED mpvSent

\* mpv drained the IPC socket: it is writable again, a new edge is raised
IpcSockDrained ==
    /\ UNCHANGED ipcClosedBy
    /\ envSteps < MaxIpcEnv /\ envSteps' = envSteps + 1
    /\ ipcState = "Connected"
    /\ ipcSockFull
    /\ ipcSockFull' = FALSE
    /\ ipcReady' = ipcReady \cup {CLIENT}
    /\ UNCHANGED <<ipcPc, ipcState, ipcMessages, ipcWrite, ipcWire, ipcIn,
                   ipcEof, mpvCur, ipcBatch, ipcRegistered, ipcLines, ipcCurW,
                   ipcChan, ipcWaker, ipcRelay, forwarded, ipcDone>>
    /\ UNCHANGED srvVars
    /\ UNCHANGED mpvSent
IpcNext ==
    \/ IpcPoll
    \/ IpcClientReadable
    \/ IpcLine
    \/ IpcWritable
    \/ IpcBroadcast
    \/ IpcRelaySend
    \/ IpcRelayWake
    \/ MpvWrite
    \/ MpvClose
    \/ IpcSockDrained

\* the IPC loop when mpv sends bursts of subtitle lines only
BurstNext ==
    \/ IpcPoll
    \/ IpcClientReadable
    \/ IpcLine
    \/ IpcWritable
    \/ IpcBroadcast
    \/ IpcRelaySend
    \/ IpcRelayWake
    \/ MpvBurst

\* the whole program: the IPC loop feeds the server's channel (main.rs), mpv
\* sends subtitle events, clients connect to the server; the IPC socket
\* takes what is written to it
PipeNext ==
    \/ IpcPoll
    \/ IpcClientReadable
    \/ IpcLine
    \/ (IpcWritable /\ ~ipcSockFull')
    \/ IpcBroadcast
    \/ IpcRelaySend
    \/ IpcRelayWake
    \/ MpvSubtitle
    \/ SrvPoll
    \/ SrvAccept
    \/ SrvBroadcast
    \/ \E c \in ClientTokens : SrvClient(c)
    \/ (envSteps < MaxPipeEnv /\ ClientConnect)
    \/ \E c \in ClientTokens : (envSteps < MaxPipeEnv /\ ClientSend(c))

\* the runs in which one of the two loops gets input while the other one is
\* still as it started
SrvIdle ==
    /\ unique_token = BROADCAST /\ pendingConn = 0
    /\ prodPc = "idle" /\ prodNext = 1
    /\ srvBatch = {} /\ fanout = <<>>
IpcIdle ==
    /\ ipcPc = "loop" /\ ipcBatch = {} /\ ipcReady = {CLIENT}
    /\ ipcWire = <<>> /\ mpvSent = <<>> /\ ~ipcEof /\ ~ipcCurW
EitherNext ==
    \/ (IpcIdle /\ SrvNext)
    \/ (SrvIdle /\ IpcNext /\ envSteps' <= MaxPipeEnv)

\* ------------------------------------------------------------------------
\* src/mio_channel.rs used on its own: the owner of the receiver registers,
\* deregisters and reregisters it and calls try_recv, while another thread
\* sends (ProdSend, ProdWake)
\* ------------------------------------------------------------------------
WakerTokens == {BROADCAST, BROADCAST + 1}

ChanFrame ==
    /\ envSteps < MaxEnv /\ envSteps' = envSteps + 1
    /\ UNCHANGED ipcVars
    /\ UNCHANGED <<srvBatch, registered, pendingConn, unique_token,
                   token_to_tcpstreams, token_to_websockets, inbound, sockFull,
                   codec, wire, handed, prodPc, prodNext, closedBy>>

ChanRegister(t) ==
    /\ ChanFrame
    /\ waker' = register(waker, t)
    /\ last' = Op("Register", t, NoOuts)
    /\ UNCHANGED <<chan, srvReady, fanout>>

ChanDeregister ==
    /\ ChanFrame
    /\ waker' = deregister(waker)
    /\ last' = Op("Deregister", SERVER, NoOuts)
    /\ UNCHANGED <<chan, srvReady, fanout>>

ChanReregister(t) ==
    /\ ChanFrame
    /\ waker' = reregister(waker, t)
    /\ last' = Op("Reregister", t, NoOuts)
    /\ UNCHANGED <<chan, srvReady, fanout>>

\* the owner's poll returns the pending wake events, then Receiver::try_recv
ChanTryRecv ==
    /\ ChanFrame
    /\ srvReady' = {}
    /\ chan' = try_recv_rest(chan)
    /\ fanout' = IF try_recv_item(chan) = <<>> THEN fanout
                 ELSE Append(fanout, [item |-> try_recv_item(chan)[1],
                                      open |-> {}])
    /\ last' = Op("TryRecv", SERVER, NoOuts)
    /\ UNCHANGED waker

ChanNext ==
    \/ \E t \in WakerTokens : ChanRegister(t)
    \/ ChanDeregister
    \/ \E t \in WakerTokens : ChanReregister(t)
    \/ ChanTryRecv
    \/ ProdSend
    \/ ProdWake

Init == SrvInit /\ IpcInit /\ envSteps = 0
Next == SrvNext
Spec == Init /\ [][Next]_vars
SpecIpc == Init /\ [][IpcNext]_vars

\* the server thread always runs when it can: poll returns once a registered
\* source is ready and every event of a batch is dispatched
SrvFairness ==
    /\ WF_vars(SrvPoll)
    /\ WF_vars(SrvAccept)
    /\ WF_vars(SrvBroadcast)
    /\ \A c \in ClientTokens : WF_vars(SrvClient(c))
    /\ WF_vars(ProdWake)
SpecLive == Init /\ [][Next]_vars /\ SrvFairness
SpecBurst == Init /\ [][BurstNext]_vars
SpecPipe == Init /\ [][PipeNext]_vars
SpecEither == Init /\ [][EitherNext]_vars
SpecChan == Init /\ [][ChanNext]_vars


\* ------------------------------------------------------------------------
\* Properties of the Broadcast Server (Spec)
\* ------------------------------------------------------------------------
\* a handler of the server loop ran in this step
SrvHandlerRan == srvBatch' # srvBatch /\ srvBatch' \subseteq srvBatch

Registry == DOMAIN token_to_websockets

\* the items fanned out while c was Open, in the order of their dequeue
RECURSIVE FannedUpTo(_, _)
FannedUpTo(c, n) ==
    IF n = 0 THEN <<>>
    ELSE IF c \in fanout[n].open
         THEN Append(FannedUpTo(c, n - 1), fanout[n].item)
         ELSE FannedUpTo(c, n - 1)
Fanned(c) == FannedUpTo(c, Len(fanout))

\* what connection c holds of the fanned-out items: handed to the codec, then
\* still queued
Held(c) ==
    handed[c] \o (IF c \in Registry THEN token_to_websockets[c].messages ELSE <<>>)

\* C1: for every connection, the messages handed to its codec are a prefix of
\* the items fanned out while it was Open, in the same order; for a connection
\* of the registry the handed messages followed by the queued ones are exactly
\* those items (nothing skipped, duplicated or reordered).
C1_HandedIsPrefixOfFanned ==
    /\ \A c \in ClientTokens : IsPrefix(handed[c], Fanned(c))
    /\ \A c \in Registry : Held(c) = Fanned(c)

\* three items fanned out to one Open connection: one handed, two queued behind
W1_ThreeItemsOneConnection ==
    \E c \in Registry :
        /\ Len(Fanned(c)) = 3
        /\ Len(handed[c]) >= 1
        /\ Len(token_to_websockets[c].messages) = 2

\* C2: in a fan-out pass, a connection whose write fails with an error other
\* than would-block is removed from the registry and deregistered when the
\* handler completes; every other connection Open at the dequeue is still in
\* the registry, has the item enqueued behind what it held, and had one
\* message handed to its codec when its flag was Writable.
C2_PartialFailureIsolation ==
    [][(SrvHandlerRan /\ last'.op = "Broadcast") =>
        LET item == fanout'[Len(fanout')].item
        IN \A c \in Registry :
            IF last'.outs[c] = "Closed"
            THEN c \notin DOMAIN token_to_websockets' /\ c \notin registered'
            ELSE /\ c \in DOMAIN token_to_websockets'
                 /\ c \in registered'
                 /\ handed'[c] \o token_to_websockets'[c].messages
                      = Append(Held(c), item)
                 /\ (token_to_websockets[c].write = "Writable"
                       => Len(handed'[c]) = Len(handed[c]) + 1)
                 /\ (token_to_websockets[c].write = "Unwritable"
                       => handed'[c] = handed[c])]_vars

\* a fan-out pass in which one connection failed and another one was written
W2_OneFailsOtherServed ==
    /\ last.op = "Broadcast"
    /\ \E c, d \in DOMAIN last.outs :
        /\ last.outs[c] = "Closed" /\ c \notin Registry
        /\ last.outs[d] = "Ok" /\ d \in Registry
        /\ handed[d] # <<>>

\* C3: a dequeued item is held exactly once by every connection that was Open
\* at the dequeue (at most once when the connection closed since), and never
\* by a connection that was not Open then, also after it became Open.
C3_OnlyOpenConnectionsReceive ==
    \A c \in ClientTokens : \A i \in 1..Len(fanout) :
        LET n == Count(Held(c), fanout[i].item)
        IN /\ c \notin fanout[i].open => n = 0
           /\ (c \in fanout[i].open /\ c \in Registry) => n = 1
           /\ (c \in fanout[i].open /\ c \notin Registry) => n <= 1

\* an item was fanned out to c while d, accepted no later than c, was still
\* Upgrading; d is Open now
W3_UpgradedAfterFanOut ==
    \E i \in 1..Len(fanout) : \E c, d \in ClientTokens :
        /\ d < c
        /\ c \in fanout[i].open /\ d \notin fanout[i].open
        /\ d \in Registry
        /\ handed[c] # <<>>

\* C12: a read-side failure on one Open connection removes and deregisters
\* that connection only: every other entry of the registry (queue, flag), the
\* Upgrading set and the other registrations, the listener's included, are
\* unchanged; and every fan-out pass after it still reaches every connection
\* of the registry, which holds the item unless its own write closed it.
C12_ReadFailureIsolation ==
    [][/\ \A c \in Registry :
            (SrvHandlerRan /\ closedBy[c] = "none" /\ closedBy'[c] = "read")
            => /\ DOMAIN token_to_websockets' = Registry \ {c}
               /\ \A d \in Registry \ {c} :
                     token_to_websockets'[d] = token_to_websockets[d]
               /\ token_to_tcpstreams' = token_to_tcpstreams
               /\ registered' = registered \ {c}
               /\ SERVER \in registered'
       /\ (/\ SrvHandlerRan /\ last'.op = "Broadcast"
           /\ \E c \in ClientTokens : closedBy[c] = "read")
            => LET pass == fanout'[Len(fanout')]
               IN /\ pass.open = Registry
                  /\ \A d \in Registry :
                        \/ closedBy'[d] = "fanout"
                        \/ /\ d \in DOMAIN token_to_websockets'
                           /\ handed'[d] \o token_to_websockets'[d].messages
                                = Append(Held(d), pass.item)]_vars

\* c and d were Open, a malformed frame closed c, and the broadcast that
\* followed was handed to d
W12_BroadcastAfterReadFailure ==
    \E c, d \in ClientTokens :
        /\ closedBy[c] = "read" /\ c \notin Registry
        /\ d \in Registry
        /\ last.op = "Broadcast"
        /\ fanout[Len(fanout)].open = {d}
        /\ handed[d] # <<>>

\* C14 (as claimed): a would-block or interrupted result is not an error: a
\* handshake that would block (the request has arrived in part) leaves the
\* connection in the Upgrading set and registered, a read that would block
\* after valid frames and a write that would block or was interrupted leave
\* the connection in the registry.
C14_WouldBlockIsNotAnError ==
    [][\A c \in ClientTokens :
        (SrvHandlerRan /\ last'.token = c) =>
          /\ (c \in token_to_tcpstreams /\ last'.op = "UpgradeFailed"
                /\ inbound[c] = <<"hspart">>)
              => (c \in token_to_tcpstreams' /\ c \in registered')
          /\ (c \in Registry /\ last'.op = "Read"
                /\ \A i \in 1..Len(inbound[c]) : inbound[c][i] = "msg")
              => c \in DOMAIN token_to_websockets'
          /\ (c \in Registry /\ last'.op = "CanWrite"
                /\ last'.outs[c] \in {"WouldBlock", "Interrupted"}
                /\ \A i \in 1..Len(inbound[c]) : inbound[c][i] = "msg")
              => c \in DOMAIN token_to_websockets']_vars

\* the identifiers whose connection has ended
Ended == {c \in ClientTokens : closedBy[c] # "none"}

\* C15: a connection that reached Closed in a handler is, when that handler
\* has completed, in neither the registry nor the Upgrading set nor the
\* poller; it never comes back; and a later event carrying its identifier
\* changes nothing of the server's records.
C15_ClosedIsRemovedAndTerminal ==
    [][\A c \in ClientTokens :
        /\ closedBy'[c] # "none"
           => /\ c \notin DOMAIN token_to_websockets'
              /\ c \notin token_to_tcpstreams'
              /\ c \notin registered'
        /\ closedBy[c] # "none" => closedBy'[c] = closedBy[c]
        /\ (SrvHandlerRan /\ last'.token = c /\ closedBy[c] # "none")
           => UNCHANGED <<token_to_websockets, token_to_tcpstreams, registered,
                          unique_token, chan, fanout, codec, wire, handed,
                          inbound, sockFull, closedBy>>]_vars

\* the fan-out pass closed c while an event of c was in the same batch; that
\* event was handled afterwards
W15_StrayEventAfterRemoval ==
    \E c \in ClientTokens :
        /\ closedBy[c] = "fanout"
        /\ last.token = c /\ last.op = "None"
        /\ c \notin Registry

\* the identifiers assigned so far: connections Upgrading, Open or ended
Assigned == token_to_tcpstreams \cup Registry \cup Ended

\* C16: every identifier assigned to an accepted connection is greater than
\* the reserved identifiers SERVER and BROADCAST and greater than every
\* identifier assigned before, whether the earlier connection is live, has
\* closed or failed to register; the connections accepted in one pass get
\* pairwise distinct identifiers.
C16_IdentifiersFreshAndIncreasing ==
    [][/\ \A c \in Assigned : c > SERVER /\ c > BROADCAST /\ c <= unique_token
       /\ (SrvHandlerRan /\ last'.op = "Accept")
          => /\ Cardinality(DOMAIN last'.outs) = pendingConn
             /\ \A c \in DOMAIN last'.outs :
                   /\ c > BROADCAST
                   /\ c \in Assigned'
                   /\ \A a \in Assigned : c > a]_vars

\* a connection was accepted after the earlier one had been Open and closed
W16_AcceptAfterClose ==
    /\ last.op = "Accept"
    /\ \E b \in Ended : \E c \in DOMAIN last.outs :
          /\ closedBy[b] \in {"read", "write", "fanout"}
          /\ b < c
          /\ c \in token_to_tcpstreams

\* the connections in the server's records
Live == Registry \cup token_to_tcpstreams

\* C17: the handler of a client event changes the server's records for that
\* connection only.  The listener and the Wake Channel receiver stay
\* registered, the channel, the identifier counter, the other connections and
\* the IPC loop are untouched, the other events of the batch remain to be
\* handled; a handshake failure, a read failure or a write failure removes
\* exactly that connection from the records and from the poller.
C17_ClientFailureStaysLocal ==
    [][/\ {SERVER, BROADCAST} \subseteq registered'
       /\ \A c \in ClientTokens :
            (SrvHandlerRan /\ last'.token = c) =>
              /\ srvBatch' = {e \in srvBatch : e.token # c}
              /\ \A d \in Registry \ {c} :
                    /\ d \in DOMAIN token_to_websockets'
                    /\ token_to_websockets'[d] = token_to_websockets[d]
              /\ token_to_tcpstreams \ {c} = token_to_tcpstreams' \ {c}
              /\ registered \ {c} = registered' \ {c}
              /\ UNCHANGED <<chan, waker, unique_token, pendingConn, fanout,
                             ipcVars>>
              /\ (closedBy[c] = "none" /\ closedBy'[c] # "none")
                  => /\ closedBy'[c] \in {"handshake", "firstread", "read",
                                           "write"}
                     /\ c \in Live
                     /\ Live' = Live \ {c}
                     /\ registered' = registered \ {c}]_vars

\* a write failure closed a connection and the loop went on to accept the
\* next one
W17_AcceptAfterWriteFailure ==
    \E c \in Ended : \E d \in token_to_tcpstreams :
        /\ closedBy[c] = "write"
        /\ last.op = "Accept"
        /\ c < d
        /\ {SERVER, BROADCAST} \subseteq registered

\* C20: when the handshake of an Upgrading connection fails, the connection
\* is, after that handler, in neither the Upgrading set nor the registry and
\* no longer registered with the poller; the listener and the receiver stay
\* registered and the rest of the batch is still handled; no handler runs
\* for that identifier afterwards.
C20_HandshakeFailureRemoves ==
    [][\A c \in ClientTokens :
        /\ (SrvHandlerRan /\ last'.token = c /\ last'.op = "UpgradeFailed")
           => /\ c \in token_to_tcpstreams
              /\ c \notin token_to_tcpstreams'
              /\ c \notin DOMAIN token_to_websockets'
              /\ c \notin registered'
              /\ closedBy'[c] = "handshake"
              /\ {SERVER, BROADCAST} \subseteq registered'
              /\ srvBatch' = {e \in srvBatch : e.token # c}
        /\ closedBy[c] = "handshake"
           => /\ c \notin registered'
              /\ c \notin token_to_tcpstreams'
              /\ c \notin DOMAIN token_to_websockets'
              /\ ~(SrvHandlerRan /\ last'.token = c)]_vars

\* the handshake of c failed and the loop went on to accept the next
\* connection
W20_AcceptAfterHandshakeFailure ==
    \E c \in Ended : \E d \in token_to_tcpstreams :
        /\ closedBy[c] = "handshake"
        /\ last.op = "Accept"
        /\ c < d

\* C19 (as claimed): whenever an Open connection has a message queued and its
\* socket can take data, the queue is eventually emptied (or the connection
\* closes, or the socket fills up again), without any further broadcast.
C19_QueuedMessagesEventuallySent ==
    \A c \in ClientTokens :
        (c \in Registry /\ ~sockFull[c]
           /\ token_to_websockets[c].messages # <<>>)
        ~> (\/ c \notin Registry
            \/ sockFull[c]
            \/ token_to_websockets[c].messages = <<>>)

\* the event of the current batch that carries c's identifier is writable
WritableEvent(c) == \E e \in srvBatch : e.token = c /\ "w" \in e.flags

\* the handler that upgrades c runs in this step: c is Upgrading, its readable
\* event is handled and the handshake request is complete
UpgradeSucceeds(c) ==
    /\ SrvHandlerRan /\ last'.token = c
    /\ c \in token_to_tcpstreams /\ c \notin token_to_tcpstreams'
    /\ inbound[c] # <<>> /\ Head(inbound[c]) = "hs"

\* the frames that arrived behind the handshake request of c hold a close or
\* a malformed frame
DrainCloses(c) ==
    \E i \in 2..Len(inbound[c]) : inbound[c][i] # "msg"

\* C21: when the handshake of an Upgrading connection succeeds, the connection
\* leaves the Upgrading set and is Open with an empty queue and the flag
\* Unwritable; the same handler reads its inbound frames until would-block or
\* closure; a connection closed by that drain is deregistered and is not
\* inserted in the registry, any other one is inserted as Open (its flag turns
\* Writable only by the writable part of the same event).
C21_UpgradeThenDrain ==
    [][\A c \in ClientTokens :
        UpgradeSucceeds(c) =>
          /\ NewConn(c).state = "Connected"
          /\ NewConn(c).messages = <<>>
          /\ NewConn(c).write = "Unwritable"
          /\ c \notin token_to_tcpstreams'
          /\ inbound'[c] = <<>>
          /\ IF DrainCloses(c)
             THEN /\ c \notin DOMAIN token_to_websockets'
                  /\ c \notin registered'
                  /\ closedBy'[c] = "firstread"
                  /\ handed'[c] = <<>>
             ELSE /\ c \in DOMAIN token_to_websockets'
                  /\ c \in registered'
                  /\ closedBy'[c] = "none"
                  /\ token_to_websockets'[c].messages = <<>>
                  /\ token_to_websockets'[c].write =
                        (IF WritableEvent(c) THEN "Writable" ELSE "Unwritable")]_vars

\* one connection was upgraded and closed by the close frame behind its
\* handshake request, another one was upgraded and is Open
W21_DrainClosedOneOpenedOther ==
    \E c, d \in ClientTokens :
        /\ closedBy[c] = "firstread" /\ c \notin Registry /\ c \notin registered
        /\ d \in Registry /\ closedBy[d] = "none"
        /\ token_to_websockets[d].messages = <<>>

\* C22: the handler of a listener readable event accepts until accept would
\* block: no pending connection is left when it returns; every connection it
\* accepted got an identifier not assigned before; each one whose registration
\* succeeded is registered (read and write readiness are reported for it) and
\* stored as Upgrading, not in the registry; one whose registration failed is
\* in no record; the registry itself is unchanged.
C22_AcceptUntilWouldBlock ==
    [][(SrvHandlerRan /\ last'.op = "Accept") =>
        /\ pendingConn' = 0
        /\ Cardinality(DOMAIN last'.outs) = pendingConn
        /\ token_to_websockets' = token_to_websockets
        /\ token_to_tcpstreams \subseteq token_to_tcpstreams'
        /\ \A c \in DOMAIN last'.outs :
            /\ c \notin Assigned /\ c \notin registered
            /\ c \notin DOMAIN token_to_websockets'
            /\ IF last'.outs[c] = "Ok"
               THEN /\ c \in registered'
                    /\ c \in token_to_tcpstreams'
                    /\ c \in srvReady'
                    /\ "w" \in EventFlags(c)'
                    /\ (inbound'[c] # <<>> => "r" \in EventFlags(c)')
               ELSE /\ c \notin registered'
                    /\ c \notin token_to_tcpstreams']_vars

\* two connections were pending at one listener event: both were accepted in
\* that pass, one is Upgrading, the registration of the other one failed
W22_TwoAcceptedInOnePass ==
    /\ last.op = "Accept"
    /\ pendingConn = 0
    /\ \E c, d \in DOMAIN last.outs :
        /\ c # d
        /\ last.outs[c] = "Ok" /\ c \in token_to_tcpstreams /\ c \in registered
        /\ last.outs[d] = "RegisterFailed" /\ d \notin registered

\* a call of the receiver's owner ran in this step
ChanOpStep(op) ==
    envSteps' # envSteps /\ prodPc' = prodPc /\ last'.op = op

\* C27: register attaches a waker for the given identifier when none is
\* attached and leaves an attached one, with its identifier, as it is;
\* deregister detaches; reregister leaves a waker for the given identifier
\* attached; none of them touches the queue.  A send enqueues its item whether
\* or not a waker is attached; afterwards it fires the attached waker, once
\* and for the waker's identifier, and fires nothing when none is attached;
\* the item is enqueued (or already received) when the wake is fired.
C27_WakerAttachment ==
    [][/\ ChanOpStep("Register")
          => /\ waker' = (IF waker = <<>> THEN <<last'.token>> ELSE waker)
             /\ UNCHANGED <<chan, srvReady>>
       /\ ChanOpStep("Deregister")
          => waker' = <<>> /\ UNCHANGED <<chan, srvReady>>
       /\ ChanOpStep("Reregister")
          => waker' = <<last'.token>> /\ UNCHANGED <<chan, srvReady>>
       /\ (prodPc = "idle" /\ prodPc' = "wake")
          => /\ chan' = Append(chan, prodNext)
             /\ UNCHANGED <<waker, srvReady>>
       /\ (prodPc = "wake" /\ prodPc' = "idle")
          => /\ Len(chan) + Len(fanout) >= prodNext
             /\ UNCHANGED <<chan, waker>>
             /\ srvReady' = (IF waker = <<>> THEN srvReady
                             ELSE srvReady \cup {waker[1]})]_vars

\* the receiver was deregistered and a send completed afterwards: its item is
\* in the queue, nothing was received and no wake was fired
W27_SendAfterDeregister ==
    /\ waker = <<>>
    /\ prodPc = "idle" /\ prodNext = 2
    /\ chan = <<1>> /\ fanout = <<>>
    /\ srvReady = {}

\* C29: none of the panics of the server's dispatch is reachable.  An
\* identifier is never Upgrading and in the registry at once and every state
\* of the registry is Connected; UpgradeWebSocket is delivered only for an
\* Upgrading identifier that is not in the registry (to a new Unconnected
\* state); MessagesAvailable and CanWrite are delivered only to a Connected
\* state of the registry or to the state the same handler just upgraded;
\* SendText is delivered to Connected states only; every identifier the
\* fan-out pass removes was in the registry and its state is Closed.
C29_DispatchPanicsUnreachable ==
    [][/\ token_to_tcpstreams' \cap DOMAIN token_to_websockets' = {}
       /\ \A c \in DOMAIN token_to_websockets' :
             token_to_websockets'[c].state = "Connected"
       /\ \A c \in ClientTokens :
            (SrvHandlerRan /\ last'.token = c) =>
              /\ last'.op \in {"Upgrade", "UpgradeFailed"}
                 => c \in token_to_tcpstreams /\ c \notin Registry
              /\ last'.op = "Read"
                 => c \in Registry /\ token_to_websockets[c].state = "Connected"
              /\ last'.op = "CanWrite"
                 => \/ c \in Registry /\ token_to_websockets[c].state = "Connected"
                    \/ UpgradeSucceeds(c) /\ c \notin Registry
       /\ (SrvHandlerRan /\ last'.op = "Broadcast")
          => /\ \A c \in Registry : token_to_websockets[c].state = "Connected"
             /\ \A c \in Registry \ DOMAIN token_to_websockets' :
                   /\ last'.outs[c] = "Closed"
                   /\ closedBy[c] = "none" /\ closedBy'[c] = "fanout"]_vars

\* a fan-out pass removed a connection whose write failed while a connection
\* accepted later was still Upgrading
W29_FanOutRemovalAmongOthers ==
    /\ last.op = "Broadcast"
    /\ \E c, d \in ClientTokens :
        /\ closedBy[c] = "fanout" /\ last.outs[c] = "Closed" /\ c \notin Registry
        /\ d \in token_to_tcpstreams /\ c < d

\* C32: in every state of the Broadcast Server no identifier is both Upgrading
\* (token_to_tcpstreams) and in the registry (token_to_websockets), and every
\* identifier of either set is greater than 1, the BROADCAST identifier, and
\* not greater than the identifier counter.
C32_RecordsDisjointAndBounded ==
    /\ token_to_tcpstreams \cap DOMAIN token_to_websockets = {}
    /\ \A c \in token_to_tcpstreams \cup DOMAIN token_to_websockets :
          c > 1 /\ c > BROADCAST /\ c <= unique_token

\* the first connection is Open and has a message queued, the second one is
\* still Upgrading, the counter stands at the second identifier
W32_OneOpenOneUpgrading ==
    \E c \in Registry : \E d \in token_to_tcpstreams :
        /\ c < d /\ d = unique_token
        /\ token_to_websockets[c].messages # <<>>
        /\ inbound[d] # <<>>

\* C6 (as claimed): the server loop is never left in poll without a pending
\* BROADCAST event while its channel holds an item and no send is in progress.
C6_NoItemStrandedInChannel ==
    (/\ \A e \in srvBatch : e.token # BROADCAST
     /\ BROADCAST \notin srvReady
     /\ prodPc = "idle") => chan = <<>>

\* C10 (as claimed): after a send hit would-block (flag Unwritable, frame held
\* by the codec), the handler of the next writable event of that connection
\* completes the frame (or the transport blocks again), also when the
\* Connection Queue is empty at that event.
C10_HeldFrameCompletedOnWritable ==
    [][\A c \in ClientTokens :
        (/\ SrvHandlerRan
         /\ last'.op = "CanWrite" /\ last'.token = c
         /\ last'.outs[c] # "Interrupted"
         /\ c \in Registry /\ codec[c] # <<>>
         /\ token_to_websockets[c].write = "Unwritable"
         /\ c \in DOMAIN token_to_websockets')
        => (codec'[c] = <<>> \/ sockFull'[c])]_vars


\* ------------------------------------------------------------------------
\* Properties of the IPC Session (SpecIpc, SpecBurst)
\* ------------------------------------------------------------------------
\* a line that is a sub-text property-change event with non-empty data
ClaimValid(line) ==
    /\ Len(line) = 3
    /\ line[1] = "property-change"
    /\ line[2] = "sub-text"
    /\ line[3] # ""

\* the step that processes one line of the buffer
IpcLineStep ==
    /\ ipcPc = "lines" /\ ipcLines # <<>>
    /\ ipcDone' = Append(ipcDone, Head(ipcLines))

\* C4: a line is forwarded on the Wake Channel exactly when it is a sub-text
\* property-change event with non-empty data, and nothing else forwards an
\* item; any other line changes neither the channel nor the session state,
\* and the loop goes on with the line that follows it.
C4_OnlySubTextLinesForwarded ==
    [][/\ forwarded' # forwarded => IpcLineStep
       /\ IpcLineStep =>
            LET line == Head(ipcLines)
            IN /\ ipcLines' = Tail(ipcLines)
               /\ ipcPc' = "lines"
               /\ ipcState' = ipcState
               /\ ipcMessages' = ipcMessages
               /\ ipcWrite' = ipcWrite
               /\ IF ClaimValid(line)
                  THEN /\ forwarded' = Append(forwarded, line[3])
                       /\ ipcChan' = Append(ipcChan, line[3])
                  ELSE /\ forwarded' = forwarded
                       /\ ipcChan' = ipcChan]_vars

\* one buffer in which a discarded line was followed by a forwarded one
W4_ValidAfterDiscardedLine ==
    \E i, j \in 1..Len(ipcDone) :
        /\ i < j
        /\ ~ClaimValid(ipcDone[i])
        /\ ClaimValid(ipcDone[j])
        /\ forwarded # <<>>

\* the data of the valid lines among ls, in order
RECURSIVE ItemsOf(_)
ItemsOf(ls) ==
    IF ls = <<>> THEN <<>>
    ELSE (IF ClaimValid(Head(ls)) THEN <<Head(ls)[3]>> ELSE <<>>)
         \o ItemsOf(Tail(ls))

\* the complete (newline-terminated) lines of a byte stream
RECURSIVE CompleteLines(_)
CompleteLines(bytes) ==
    IF bytes = <<>> THEN <<>>
    ELSE IF bytes[Len(bytes)] = NL THEN lines(bytes)
    ELSE CompleteLines(SubSeq(bytes, 1, Len(bytes) - 1))

\* C5 (as claimed): once the IPC loop is back in poll with every byte mpv sent
\* consumed, exactly one item was forwarded for every complete valid line of
\* the stream, however the bytes were split across reads and events.
C5_NoLineLostAcrossReads ==
    (/\ ipcPc = "loop" /\ ipcBatch = {} /\ CLIENT \notin ipcReady
     /\ ipcIn = <<>> /\ ipcState = "Connected")
    => forwarded = ItemsOf(CompleteLines(mpvSent))

\* C11: a zero-byte read on the IPC transport closes the session and ends
\* the IPC loop within the readable handler: the transport is deregistered,
\* the queue released, nothing is written (the writable part of the same
\* event is not handled), and from then on no step reads, writes, changes the
\* session or registers the transport again.
C11_ZeroReadEndsLoop ==
    [][/\ (ipcPc = "loop" /\ ipcState = "Connected" /\ ipcState' = "Closed")
          => /\ ipcClosedBy' = "eof"
             /\ ipcPc' = "done"
             /\ CLIENT \notin ipcRegistered'
             /\ ipcMessages' = <<>>
             /\ ipcWrite' = "Unwritable"
             /\ ipcWire' = ipcWire
       /\ ipcClosedBy = "eof"
          => /\ ipcState = "Closed" /\ ipcPc = "done"
             /\ UNCHANGED ipcVars]_vars

\* mpv closed while the observe command was still queued: the event was
\* readable and writable, the session is Closed and nothing was written
W11_ClosedBeforeCommandWritten ==
    /\ ipcClosedBy = "eof"
    /\ ipcCurW
    /\ ipcWire = <<>>
    /\ ipcPc = "done"

\* the items fanned out by the Broadcast Server, in the order of the passes
FannedItems == [i \in 1..Len(fanout) |-> fanout[i].item]

\* the item the IPC loop took from its channel and has not sent on yet
InRelay == IF ipcPc = "relay" THEN ipcRelay ELSE <<>>

\* C18: the items fanned out by the Broadcast Server are a prefix of the
\* payloads forwarded by the IPC Session, in the same order; the forwarded
\* payloads are exactly the fanned-out ones followed by those waiting in the
\* server's channel, in the relay and in the IPC loop's channel, so nothing
\* is lost, duplicated or reordered on the way.
C18_EndToEndOrder ==
    /\ IsPrefix(FannedItems, forwarded)
    /\ forwarded = FannedItems \o chan \o InRelay \o ipcChan
    /\ \A i, j \in 1..Len(forwarded) :
          i # j => forwarded[i] # forwarded[j]

\* two subtitles went from mpv through both channels to an Open connection
W18_TwoSubtitlesDelivered ==
    /\ FannedItems = <<SubText(1), SubText(2)>>
    /\ \E c \in Registry : handed[c] = FannedItems

\* the handler of a writable event of connection c ran in this step
SrvCanWriteStep(c) ==
    SrvHandlerRan /\ last'.op = "CanWrite" /\ last'.token = c

\* the IPC loop is at the writable part of a CLIENT event
IpcCanWriteStep == ipcPc = "lines" /\ ipcLines = <<>> /\ ipcCurW

\* a write on the IPC transport was attempted in this step
IpcWriteAttempted ==
    \/ ipcWire' # ipcWire
    \/ ipcSockFull' /\ ~ipcSockFull
    \/ ipcClosedBy' = "writezero" /\ ipcClosedBy # "writezero"
    \/ ipcPc' = "panic" /\ ipcPc # "panic"

IpcReadReturned ==
    /\ ipcPc = "loop" /\ ipcPc' = "lines"
    /\ \E e \in ipcBatch : e \notin ipcBatch' /\ e.token = CLIENT /\ "r" \in e.flags

\* C23 (as claimed): when the readable handler of the IPC session returns with
\* the session still Connected, it has read until would-block: no complete
\* line that was available in the transport is left unread behind the newline
\* that ended a read, unless a readiness edge for the transport is pending.
C23_ReadsUntilWouldBlock ==
    [][IpcReadReturned =>
        \/ CLIENT \in ipcReady'
        \/ \A i \in 1..Len(ipcIn') : ipcIn'[i] # NL]_vars

C24_OnlyTheObserveCommand ==
    /\ (/\ ipcMessages = <<OBSERVE_PROPERTY_SUB_TEXT>>
        /\ ipcWrite = "Unwritable"
        /\ ipcWire = <<>>)
    /\ [][/\ Len(ipcMessages') <= 1
          /\ ipcMessages' \in {ipcMessages, <<>>}
          /\ ipcWire' # ipcWire
             => /\ IpcCanWriteStep
                /\ ipcMessages = <<OBSERVE_PROPERTY_SUB_TEXT>>
                /\ \E n \in 1..Len(OBSERVE_PROPERTY_SUB_TEXT) :
                      ipcWire' = ipcWire
                                 \o SubSeq(OBSERVE_PROPERTY_SUB_TEXT, 1, n)]_vars

\* the command was written by the handler of a writable event and a subtitle
\* was forwarded afterwards, nothing more being written
W24_CommandWrittenThenSubtitle ==
    /\ ipcWire = OBSERVE_PROPERTY_SUB_TEXT
    /\ ipcMessages = <<>> /\ ipcWrite = "Writable"
    /\ forwarded # <<>>

\* C26 (as claimed): every way the IPC loop stops is the terminal state Closed:
\* after EOF, write-zero, a reset or any other I/O error that is neither
\* would-block nor interrupted, the session is Closed, its transport is
\* deregistered and the loop has returned.
C26_IoErrorClosesSession ==
    ipcPc \notin {"loop", "lines", "relay", "relaywake"}
    => /\ ipcPc = "done"
       /\ ipcState = "Closed"
       /\ CLIENT \notin ipcRegistered

\* C28 (as claimed): when the IPC loop has returned because the session is
\* Closed, every item the session forwarded on its channel has been relayed to
\* the Broadcast Server, in order (the server's loop not running, its channel
\* holds exactly the relayed items).
C28_ForwardedRelayedBeforeExit ==
    ipcPc = "done" => chan = forwarded

\* SocketState::next_state is invoked in this step: MessagesAvailable for the
\* readable part of a CLIENT event (the read, then each line), CanWrite for
\* its writable part
IpcNextStateInvoked ==
    \/ /\ ipcPc = "loop"
       /\ \E e \in ipcBatch :
             e \notin ipcBatch' /\ e.token = CLIENT /\ "r" \in e.flags
    \/ IpcLineStep
    \/ IpcCanWriteStep /\ ipcPc' # ipcPc

\* C30: the state machine of the IPC session is invoked on a Connected session
\* only, so that the panic of the Closed arm is unreachable: once the session
\* is Closed no handler step is taken, in particular not the writable part of
\* the event whose readable part closed it.
C30_NoHandlerOnClosedSession ==
    [][/\ IpcNextStateInvoked => ipcState = "Connected"
       /\ ipcState = "Closed"
          => /\ ipcPc = "done"
             /\ UNCHANGED <<ipcPc, ipcState, ipcBatch, ipcLines, ipcMessages,
                            ipcWrite, ipcWire, ipcChan, ipcRegistered>>]_vars

\* the command had been written; a later event was readable and writable and
\* its 0-byte read closed the session
W30_ReadableWritableEventClosed ==
    /\ ipcClosedBy = "eof" /\ ipcState = "Closed" /\ ipcPc = "done"
    /\ ipcCurW
    /\ ipcWire = OBSERVE_PROPERTY_SUB_TEXT

\* C31: a waker is attached to the receiver of each Wake Channel, for the
\* BROADCAST identifier of its loop, from the moment its sender can be used,
\* and both receivers stay registered; hence every send on the server's
\* channel (enqueue, then wake) and every send on the IPC loop's channel
\* fires a wake for the item it enqueued.
C31_EverySendFiresWake ==
    [][/\ waker = <<BROADCAST>> /\ waker' = waker
       /\ ipcWaker = <<IpcBROADCAST>> /\ ipcWaker' = ipcWaker
       /\ BROADCAST \in registered' /\ IpcBROADCAST \in ipcRegistered'
       /\ Len(chan') > Len(chan)
          => /\ chan' = Append(chan, ipcRelay[1])
             /\ ipcPc' = "relaywake"
       /\ (ipcPc = "relaywake" /\ ipcPc' # ipcPc)
          => BROADCAST \in srvReady'
       /\ Len(ipcChan') > Len(ipcChan)
          => /\ ipcChan' = Append(ipcChan, forwarded'[Len(forwarded')])
             /\ IpcBROADCAST \in ipcReady']_vars

\* the IPC loop forwarded a subtitle on its own channel, was woken, relayed it
\* on the server's channel and fired the server's waker: the item is in the
\* server's channel with the BROADCAST edge pending
W31_RelayedItemWithWakePending ==
    /\ Len(forwarded) = 1
    /\ ipcChan = <<>> /\ ipcPc = "loop"
    /\ chan = forwarded
    /\ BROADCAST \in srvReady

\* C7 (as claimed): no call of SyncSender::send is ever blocked.
C7_SendNeverBlocks ==
    /\ ~(/\ ipcPc = "lines" /\ ipcLines # <<>>
         /\ LineItem(Head(ipcLines)) # <<>>
         /\ SendBlocked(ipcChan, IpcChanBound))
    /\ ~(ipcPc = "relay" /\ SendBlocked(chan, ServerChanBound))

\* C8 (as claimed): the readable handler of the IPC loop can always take its
\* next step, so it completes and the loop goes back to poll.
C8_ReadableHandlerCompletes ==
    ipcPc = "lines" => ENABLED (IpcLine \/ IpcWritable)

\* C9 (as claimed): once the observe command has left the Connection Queue
\* of the running session, the IPC transport has received its bytes exactly
\* once, also when a write would block after part of it was written.
C9_CommandBytesWrittenOnce ==
    (ipcState = "Connected" /\ ipcPc # "panic" /\ ipcMessages = <<>>)
    => ipcWire = OBSERVE_PROPERTY_SUB_TEXT

====
